---------------------------- MODULE Spec2Model ----------------------------
(***************************************************************************)
(* Model of internal/service/param.go of pg_featureserv: the parsers that  *)
(* turn the query arguments of a request into api.RequestParam and         *)
(* data.QueryParam.                                                         *)
(*                                                                         *)
(* A Go string is a sequence of one-character strings, so that lower-      *)
(* casing, splitting, prefix tests and number parsing are computed.        *)
(* A Go map is a function whose DOMAIN is its key set; a nil map or slice  *)
(* is told apart from an empty one by a "nil" field.                       *)
(***************************************************************************)
EXTENDS Integers, Sequences, FiniteSets, TLC

VARIABLES
    Configuration,              \* conf.Configuration.Paging: LimitDefault, LimitMax
    transformFunctionWhitelist, \* the package variable of param.go
    call,                       \* the last completed call: operation, arguments, result
    rerun,                      \* the result of running call's full parse a second time
    reqs                        \* requests being parsed concurrently, one per slot

vars == <<Configuration, transformFunctionWhitelist, call, rerun, reqs>>

(***************************************************************************)
(* Bounds of the model.                                                    *)
(***************************************************************************)
MaxArgs == 2    \* name=value pairs in one raw query string
MaxFuns == 2    \* function definitions in one transform value
MaxNames == 2   \* names in one properties value
NReq == 2       \* requests parsed concurrently

(***************************************************************************)
(* Strings.                                                                *)
(***************************************************************************)
UpperCase ==
    << "A", "B", "C", "D", "E", "F", "G", "H", "I", "J", "K", "L", "M",
       "N", "O", "P", "Q", "R", "S", "T", "U", "V", "W", "X", "Y", "Z" >>

LowerCase ==
    << "a", "b", "c", "d", "e", "f", "g", "h", "i", "j", "k", "l", "m",
       "n", "o", "p", "q", "r", "s", "t", "u", "v", "w", "x", "y", "z" >>

Digits == << "0", "1", "2", "3", "4", "5", "6", "7", "8", "9" >>

\* strings.ToLower on one character
ToLowerChar(c) ==
    IF \E i \in DOMAIN UpperCase : UpperCase[i] = c
    THEN LowerCase[CHOOSE i \in DOMAIN UpperCase : UpperCase[i] = c]
    ELSE c

\* strings.ToLower
ToLower(s) == [i \in 1..Len(s) |-> ToLowerChar(s[i])]

\* strings.HasPrefix
HasPrefix(s, prefix) ==
    /\ Len(s) >= Len(prefix)
    /\ SubSeq(s, 1, Len(prefix)) = prefix

\* the element of a one-element set.  The(\{ e(x) : x \in \{ v \} \}) is e(v)
\* with v computed once and bound as a value.
The(S) == CHOOSE x \in S : TRUE

\* strings.Split(s, sep) for a one-character separator: the pieces between
\* the separators, one more than there are separators
SplitAt(s, seps) ==
    [k \in 1..(Cardinality(seps) + 1) |->
        LET before == { i \in seps : Cardinality({ j \in seps : j < i }) = k - 2 }
            after == { i \in seps : Cardinality({ j \in seps : j < i }) = k - 1 }
        IN  SubSeq(s,
                   IF before = {} THEN 1 ELSE The(before) + 1,
                   IF after = {} THEN Len(s) ELSE The(after) - 1)]

Split(s, sep) ==
    The({ SplitAt(str, { i \in 1..Len(str) : str[i] = sep }) : str \in { s } })

\* the strings of list joined with the one-character separator sep
RECURSIVE Join(_, _)
Join(list, sep) ==
    IF list = << >> THEN << >>
    ELSE IF Len(list) = 1 THEN list[1]
    ELSE list[1] \o << sep >> \o Join(Tail(list), sep)

\* the sequences over set S of length n, and of length at most n
RECURSIVE SeqsOfLen(_, _)
SeqsOfLen(S, n) ==
    IF n = 0 THEN { << >> }
    ELSE { << x >> \o t : x \in S, t \in SeqsOfLen(S, n - 1) }

SeqsUpTo(S, n) == UNION { SeqsOfLen(S, k) : k \in 0..n }

(***************************************************************************)
(* Maps, slices and errors.                                                *)
(***************************************************************************)
EmptyMap == [k \in {} |-> << >>]

\* m[k] of a Go map: the zero value "" when the key is missing
Lookup(m, k) == IF k \in DOMAIN m THEN m[k] ELSE << >>

\* m[k] = v
Put(m, k, v) == [x \in DOMAIN m \cup {k} |-> IF x = k THEN v ELSE m[x]]

NilSlice == [nil |-> TRUE, elems |-> << >>]
Slice(elems) == [nil |-> FALSE, elems |-> elems]

\* append(s, x): a nil slice becomes a slice of one element
Append1(s, x) == Slice(Append(s.elems, x))

NoErr == [isErr |-> FALSE]

\* fmt.Errorf(api.ErrMsgInvalidParameterValue, param, value)
InvalidParameterValue(param, value) ==
    [isErr |-> TRUE, param |-> param, value |-> value]

(***************************************************************************)
(* Names of the api package.                                               *)
(***************************************************************************)
ParamLimit == << "l", "i", "m", "i", "t" >>
ParamOffset == << "o", "f", "f", "s", "e", "t" >>
ParamBbox == << "b", "b", "o", "x" >>
ParamProperties == << "p", "r", "o", "p", "e", "r", "t", "i", "e", "s" >>
ParamOrderBy == << "o", "r", "d", "e", "r", "b", "y" >>
ParamPrecision == << "p", "r", "e", "c", "i", "s", "i", "o", "n" >>
ParamTransform == << "t", "r", "a", "n", "s", "f", "o", "r", "m" >>

ParamReservedNames ==
    { ParamLimit, ParamOffset, ParamBbox, ParamProperties, ParamOrderBy,
      ParamPrecision, ParamTransform }

IsParameterReservedName(name) == name \in ParamReservedNames

OrderByDirSep == ":"
OrderByDirD == << "d" >>
OrderByDirA == << "a" >>

(***************************************************************************)
(* strconv.Atoi: an optional sign and one or more decimal digits, whose    *)
(* value fits a 64-bit int.                                                *)
(***************************************************************************)
IsDigit(c) == \E i \in DOMAIN Digits : Digits[i] = c

DigitVal(c) == (CHOOSE i \in DOMAIN Digits : Digits[i] = c) - 1

\* a digit string without its leading zeros, its last digit kept
StripZeros(ds) ==
    LET first == { i \in 1..Len(ds) :
                     /\ ds[i] # "0" \/ i = Len(ds)
                     /\ \A j \in 1..(i - 1) : ds[j] = "0" }
    IN  IF ds = << >> THEN ds ELSE SubSeq(ds, The(first), Len(ds))

\* digit strings of equal length compared as numbers
DigitsLeq(a, b) ==
    \/ a = b
    \/ \E i \in 1..Len(a) :
          /\ \A j \in 1..(i - 1) : a[j] = b[j]
          /\ DigitVal(a[i]) < DigitVal(b[i])

\* the digits of 2^63 - 1 and of 2^63
MaxInt64Digits ==
    << "9", "2", "2", "3", "3", "7", "2", "0", "3", "6", "8", "5", "4", "7",
       "7", "5", "8", "0", "7" >>

MinInt64Digits ==
    << "9", "2", "2", "3", "3", "7", "2", "0", "3", "6", "8", "5", "4", "7",
       "7", "5", "8", "0", "8" >>

\* the number a digit string denotes, read from the left
RECURSIVE DigitsValueFrom(_, _, _)
DigitsValueFrom(ds, i, acc) ==
    IF i > Len(ds) THEN acc
    ELSE DigitsValueFrom(ds, i + 1, acc * 10 + DigitVal(ds[i]))

DigitsValue(ds) == The({ DigitsValueFrom(d, 1, 0) : d \in { ds } })

AtoiOf(s) ==
    LET signed == s # << >> /\ s[1] \in { "+", "-" }
        neg == s # << >> /\ s[1] = "-"
        body == IF signed THEN Tail(s) ELSE s
        syntaxOk == body # << >> /\ \A i \in 1..Len(body) : IsDigit(body[i])
        limit == IF neg THEN MinInt64Digits ELSE MaxInt64Digits
        inRange(mag) == \/ Len(mag) < Len(limit)
                        \/ Len(mag) = Len(limit) /\ DigitsLeq(mag, limit)
    IN  IF syntaxOk
        THEN The({ IF inRange(mag)
                   THEN [ok |-> TRUE,
                         val |-> IF neg THEN 0 - DigitsValue(mag)
                                 ELSE DigitsValue(mag)]
                   ELSE [ok |-> FALSE, val |-> 0] : mag \in { StripZeros(body) } })
        ELSE [ok |-> FALSE, val |-> 0]

Atoi(s) == The({ AtoiOf(str) : str \in { s } })

(***************************************************************************)
(* parseInt and parseLimit.                                                *)
(***************************************************************************)
Ret(val, err) == [val |-> val, err |-> err]

\* parseInt, clamping the default into the range as well
parseIntClampDefault(values, key, minVal, maxVal, defaultVal) ==
    LET valStr == Lookup(values, key)
        clamp(v) ==
            LET lo == IF v < minVal THEN minVal ELSE v
            IN  IF lo > maxVal THEN maxVal ELSE lo
    IN  IF Len(valStr) < 1 THEN Ret(clamp(defaultVal), NoErr)
        ELSE The({ IF ~n.ok THEN Ret(0, InvalidParameterValue(key, valStr))
                   ELSE Ret(clamp(n.val), NoErr) : n \in { Atoi(valStr) } })

parseInt(values, key, minVal, maxVal, defaultVal) ==
    LET valStr == Lookup(values, key)
        clamp(n) ==
            LET lo == IF n.val < minVal THEN minVal ELSE n.val
            IN  IF lo > maxVal THEN maxVal ELSE lo
    IN  IF Len(valStr) < 1 THEN Ret(defaultVal, NoErr)
        ELSE The({ IF ~n.ok THEN Ret(0, InvalidParameterValue(key, valStr))
                   ELSE Ret(clamp(n), NoErr) : n \in { Atoi(valStr) } })

\* parseLimit, clamping a negative limit to 0 as parseInt would
parseLimitClampMin(values, conf) ==
    LET val == Lookup(values, ParamLimit)
    IN  IF Len(val) < 1 THEN Ret(conf.LimitDefault, NoErr)
        ELSE The({ IF ~n.ok THEN Ret(0, InvalidParameterValue(ParamLimit, val))
                   ELSE IF n.val < 0 THEN Ret(0, NoErr)
                   ELSE IF n.val > conf.LimitMax THEN Ret(conf.LimitMax, NoErr)
                   ELSE Ret(n.val, NoErr) : n \in { Atoi(val) } })

parseLimit(values, conf) ==
    LET val == Lookup(values, ParamLimit)
    IN  IF Len(val) < 1 THEN Ret(conf.LimitDefault, NoErr)
        ELSE The({ IF ~n.ok THEN Ret(0, InvalidParameterValue(ParamLimit, val))
                   ELSE IF n.val < 0 \/ n.val > conf.LimitMax
                   THEN Ret(conf.LimitMax, NoErr)
                   ELSE Ret(n.val, NoErr) : n \in { Atoi(val) } })

(***************************************************************************)
(* strconv.ParseFloat, on strings made of a sign, decimal digits, one      *)
(* point and characters that occur in no float syntax (no exponent, hex    *)
(* float, underscore, inf or nan is modelled).  The value num / 10^scale   *)
(* is kept normalised.                                                     *)
(***************************************************************************)
StripTrailingZeros(ds) ==
    LET nonZero == { i \in 1..Len(ds) : ds[i] # "0" }
    IN  SubSeq(ds, 1, IF nonZero = {} THEN 0
                      ELSE CHOOSE i \in nonZero : \A j \in nonZero : j <= i)

ParseFloatOf(s) ==
    LET signed == s # << >> /\ s[1] \in { "+", "-" }
        neg == s # << >> /\ s[1] = "-"
        body == IF signed THEN Tail(s) ELSE s
        parts == Split(body, ".")
        ip == parts[1]
        fp == IF Len(parts) >= 2 THEN parts[2] ELSE << >>
        syntaxOk == /\ Len(parts) <= 2
                    /\ Len(ip) + Len(fp) >= 1
                    /\ \A i \in 1..Len(ip) : IsDigit(ip[i])
                    /\ \A i \in 1..Len(fp) : IsDigit(fp[i])
        frac == StripTrailingZeros(fp)
        mag == DigitsValue(ip \o frac)
    IN  IF syntaxOk
        THEN [ok |-> TRUE,
              val |-> [num |-> IF neg THEN 0 - mag ELSE mag, scale |-> Len(frac)]]
        ELSE [ok |-> FALSE, val |-> [num |-> 0, scale |-> 0]]

ParseFloat(s) == The({ ParseFloatOf(str) : str \in { s } })

(***************************************************************************)
(* parseBbox: bbox=minLon,minLat,maxLon,maxLat                             *)
(***************************************************************************)
NilExtent == [nil |-> TRUE]

parseBbox(values) ==
    LET val == Lookup(values, ParamBbox)
        extent(nums) ==
            The({ IF \E i \in 1..4 : ~f[i].ok
                  THEN Ret(NilExtent, InvalidParameterValue(ParamBbox, val))
                  ELSE Ret([nil |-> FALSE, Minx |-> f[1].val, Miny |-> f[2].val,
                            Maxx |-> f[3].val, Maxy |-> f[4].val], NoErr) :
                  f \in { [i \in 1..4 |-> ParseFloat(nums[i])] } })
    IN  IF Len(val) < 1 THEN Ret(NilExtent, NoErr)
        ELSE The({ IF Len(nums) # 4
                   THEN Ret(NilExtent, InvalidParameterValue(ParamBbox, val))
                   ELSE extent(nums) : nums \in { Split(val, ",") } })

(***************************************************************************)
(* parseProperties: nil when the parameter is absent, [] when it is empty  *)
(***************************************************************************)
\* parseProperties, testing the length of the value as the other parsers do
parsePropertiesByLength(values) ==
    IF Len(Lookup(values, ParamProperties)) < 1 THEN Ret(NilSlice, NoErr)
    ELSE Ret(Slice(Split(values[ParamProperties], ",")), NoErr)

parseProperties(values) ==
    IF ParamProperties \notin DOMAIN values THEN Ret(NilSlice, NoErr)
    ELSE IF Len(values[ParamProperties]) < 1 THEN Ret(Slice(<< >>), NoErr)
    ELSE Ret(Slice(Split(values[ParamProperties], ",")), NoErr)

(***************************************************************************)
(* parseOrderBy and parseOrderByDir.                                       *)
(***************************************************************************)
\* parseOrderByDir, taking every token but "d" as ascending
parseOrderByDirLenient(dir) ==
    IF dir = OrderByDirD THEN Ret(TRUE, NoErr) ELSE Ret(FALSE, NoErr)

parseOrderByDir(dir) ==
    IF dir = OrderByDirD THEN Ret(TRUE, NoErr)
    ELSE IF dir = OrderByDirA THEN Ret(FALSE, NoErr)
    ELSE Ret(FALSE, InvalidParameterValue(ParamOrderBy, dir))

parseOrderBy(values) ==
    LET val == Lookup(values, ParamOrderBy)
        valLow == ToLower(val)
        ordering(nameDir) ==
            LET name == nameDir[1]
                dir == parseOrderByDir(nameDir[2])
            IN  IF Len(nameDir) >= 2 /\ dir.err.isErr THEN Ret(NilSlice, dir.err)
                ELSE Ret(Append1(NilSlice,
                                 [Name |-> name,
                                  IsDesc |-> IF Len(nameDir) >= 2 THEN dir.val
                                             ELSE FALSE]),
                         NoErr)
    IN  IF Len(val) < 1 THEN Ret(NilSlice, NoErr)
        ELSE The({ ordering(nameDir) : nameDir \in { Split(valLow, OrderByDirSep) } })

(***************************************************************************)
(* normalizePropNames and toNameSet.                                       *)
(***************************************************************************)
\* the key set of the map toNameSet builds
toNameSet(strs) == { ToLower(strs[i]) : i \in 1..Len(strs) }

\* the loop of normalizePropNames from column i on
RECURSIVE selectCols(_, _, _, _)
selectCols(colNames, nameSet, i, propNames) ==
    IF i > Len(colNames) THEN propNames
    ELSE The({ selectCols(colNames, nameSet, i + 1, p) :
               p \in { IF colNames[i] \in nameSet
                       THEN Append1(propNames, colNames[i])
                       ELSE propNames } })

normalizePropNames(requestNames, colNames) ==
    IF requestNames.nil THEN Slice(colNames)
    ELSE IF Len(requestNames.elems) = 0 THEN requestNames
    ELSE The({ selectCols(colNames, nameSet, 1, NilSlice) :
               nameSet \in { toNameSet(requestNames.elems) } })

(***************************************************************************)
(* The transform function whitelist.                                       *)
(***************************************************************************)
transformFunSep == "|"
transformParamSep == ","
functionPrefixST == << "s", "t", "_" >>

NilMap == [nil |-> TRUE, m |-> EmptyMap]

\* the loop of initTransforms from name i on: a later name overwrites an
\* earlier one
RECURSIVE whitelistOf(_, _, _)
whitelistOf(funNames, i, m) ==
    IF i > Len(funNames) THEN m
    ELSE The({ whitelistOf(funNames, i + 1, next) :
               next \in { Put(m, ToLower(funNames[i]), funNames[i]) } })

initTransforms(funNames) ==
    [nil |-> FALSE, m |-> whitelistOf(funNames, 1, EmptyMap)]

\* actualFunctionName, returning the name as the user wrote it
actualFunctionNameRaw(name, whitelist) ==
    LET nameLow == ToLower(name)
        stName == functionPrefixST \o nameLow
    IN  IF nameLow \in DOMAIN whitelist.m THEN name
        ELSE IF ~HasPrefix(nameLow, functionPrefixST) /\ stName \in DOMAIN whitelist.m
        THEN name
        ELSE << >>

\* the empty string when the name is not in the whitelist
actualFunctionName(name, whitelist) ==
    LET nameLow == ToLower(name)
        stName == functionPrefixST \o nameLow
    IN  IF nameLow \in DOMAIN whitelist.m THEN whitelist.m[nameLow]
        ELSE IF ~HasPrefix(nameLow, functionPrefixST) /\ stName \in DOMAIN whitelist.m
        THEN whitelist.m[stName]
        ELSE << >>

parseTransformFun(def) ==
    LET atoms == Split(def, transformParamSep)
    IN  [Name |-> atoms[1], Arg |-> Tail(atoms)]

\* what one round of the loop of parseTransform does with function tf
transformStep(tf, actualName, funList) ==
    IF Len(actualName) <= 0
    THEN Ret(NilSlice, InvalidParameterValue(ParamTransform, tf.Name))
    ELSE Ret(Append1(funList, [Name |-> actualName, Arg |-> tf.Arg]), NoErr)

\* the loop of parseTransform from definition i on
RECURSIVE parseTransformLoop(_, _, _, _)
parseTransformLoop(funDefs, i, funList, whitelist) ==
    IF i > Len(funDefs) THEN Ret(funList, NoErr)
    ELSE The({ IF r.err.isErr THEN r
               ELSE parseTransformLoop(funDefs, i + 1, r.val, whitelist) :
               r \in { The({ transformStep(tf,
                                 actualFunctionName(tf.Name, whitelist), funList) :
                             tf \in { parseTransformFun(funDefs[i]) } }) } })

parseTransform(values, whitelist) ==
    LET val == Lookup(values, ParamTransform)
    IN  IF Len(val) < 1 THEN Ret(NilSlice, NoErr)
        ELSE The({ parseTransformLoop(funDefs, 1, Slice(<< >>), whitelist) :
                   funDefs \in { Split(val, transformFunSep) } })

\* the names, and the arguments, of the function definitions of a transform
\* value
TransformNames(val) ==
    LET defs == Split(val, transformFunSep)
    IN  [i \in 1..Len(defs) |-> Split(defs[i], transformParamSep)[1]]

TransformArgs(val) ==
    LET defs == Split(val, transformFunSep)
    IN  [i \in 1..Len(defs) |-> Tail(Split(defs[i], transformParamSep))]

(***************************************************************************)
(* The query arguments of a request.  A raw query is the sequence of its   *)
(* decoded name=value pairs; r.URL.Query() groups the values by name, in   *)
(* order of occurrence, and Get returns the first value of a name.         *)
(***************************************************************************)
Query(rawQuery) ==
    [k \in { rawQuery[i].name : i \in 1..Len(rawQuery) } |->
        LET ps == SelectSeq(rawQuery, LAMBDA p : p.name = k)
        IN  [i \in 1..Len(ps) |-> ps[i].value]]

Get(queryArgs, key) ==
    IF key \in DOMAIN queryArgs /\ Len(queryArgs[key]) > 0
    THEN queryArgs[key][1]
    ELSE << >>

\* the orders in which a range loop may visit the keys of map m
IterationOrders(m) ==
    { o \in SeqsOfLen(DOMAIN m, Cardinality(DOMAIN m)) :
        \A k \in DOMAIN m : \E i \in 1..Len(o) : o[i] = k }

\* extractSingleArgs, its range loop visiting the keys in the given order
RECURSIVE extractSingleArgsLoop(_, _, _, _)
extractSingleArgsLoop(queryArgs, order, i, vals) ==
    IF i > Len(order) THEN vals
    ELSE The({ extractSingleArgsLoop(queryArgs, order, i + 1, next) :
               next \in { Put(vals, ToLower(order[i]), Get(queryArgs, order[i])) } })

extractSingleArgs(queryArgs, order) ==
    extractSingleArgsLoop(queryArgs, order, 1, EmptyMap)

(***************************************************************************)
(* parseRequestParams: the parsers in the order of the code; the first     *)
(* error returns the param built so far together with the error.           *)
(***************************************************************************)
Stages ==
    << "limit", "offset", "bbox", "properties", "orderBy", "precision",
       "transform" >>

\* one "--- parameter" block of parseRequestParams
parseStage(stage, param, conf, whitelist) ==
    LET p == CASE stage = "limit" -> parseLimit(param.Values, conf)
               [] stage = "offset" ->
                      parseInt(param.Values, ParamOffset, 0, conf.LimitMax, 0)
               [] stage = "bbox" -> parseBbox(param.Values)
               [] stage = "properties" -> parseProperties(param.Values)
               [] stage = "orderBy" -> parseOrderBy(param.Values)
               [] stage = "precision" ->
                      parseInt(param.Values, ParamPrecision, 0, 20, -1)
               [] stage = "transform" -> parseTransform(param.Values, whitelist)
        set(r) ==
             CASE stage = "limit" -> [param EXCEPT !.Limit = r.val]
               [] stage = "offset" -> [param EXCEPT !.Offset = r.val]
               [] stage = "bbox" -> [param EXCEPT !.Bbox = r.val]
               [] stage = "properties" -> [param EXCEPT !.Properties = r.val]
               [] stage = "orderBy" -> [param EXCEPT !.OrderBy = r.val]
               [] stage = "precision" -> [param EXCEPT !.Precision = r.val]
               [] stage = "transform" -> [param EXCEPT !.TransformFuns = r.val]
    IN  The({ IF r.err.isErr /\ stage # "transform"
              THEN [param |-> param, err |-> r.err]
              ELSE [param |-> set(r), err |-> r.err] : r \in { p } })

\* the api.RequestParam literal parseRequestParams starts from
initialParam(paramValues, conf) ==
    [Limit |-> conf.LimitDefault, Offset |-> 0, Precision |-> -1,
     Values |-> paramValues, Bbox |-> NilExtent, Properties |-> NilSlice,
     OrderBy |-> NilSlice, TransformFuns |-> NilSlice]

\* parseRequestParams from block i on
RECURSIVE runStages(_, _, _, _)
runStages(i, param, conf, whitelist) ==
    IF i > Len(Stages) THEN [param |-> param, err |-> NoErr]
    ELSE The({ IF r.err.isErr THEN r
               ELSE runStages(i + 1, r.param, conf, whitelist) :
               r \in { parseStage(Stages[i], param, conf, whitelist) } })

parseRequestParams(rawQuery, order, conf, whitelist) ==
    The({ runStages(1, initialParam(paramValues, conf), conf, whitelist) :
          paramValues \in { extractSingleArgs(Query(rawQuery), order) } })

(***************************************************************************)
(* parseFilter, its range loop visiting paramMap in the given order, and   *)
(* createQueryParams.                                                      *)
(***************************************************************************)
\* the loop of parseFilter from the i-th visited parameter on
RECURSIVE parseFilterLoop(_, _, _, _, _)
parseFilterLoop(paramMap, colNameMap, order, i, conds) ==
    IF i > Len(order) THEN conds
    ELSE LET name == order[i]
         IN  The({ parseFilterLoop(paramMap, colNameMap, order, i + 1, next) :
                   next \in { IF IsParameterReservedName(name) THEN conds
                              ELSE IF name \in DOMAIN colNameMap
                              THEN Append1(conds, [Name |-> name,
                                                   Value |-> paramMap[name]])
                              ELSE conds } })

parseFilter(paramMap, colNameMap, order) ==
    parseFilterLoop(paramMap, colNameMap, order, 1, NilSlice)

createQueryParams(requestParam, colNames) ==
    [Limit |-> requestParam.Limit,
     Offset |-> requestParam.Offset,
     Bbox |-> requestParam.Bbox,
     OrderBy |-> requestParam.OrderBy,
     Precision |-> requestParam.Precision,
     TransformFuns |-> requestParam.TransformFuns,
     Columns |-> normalizePropNames(requestParam.Properties, colNames)]

\* the column map a handler passes to parseFilter: keyed by the column names
colNameMapOf(colNames) ==
    [c \in { colNames[i] : i \in 1..Len(colNames) } |-> << "t", "e", "x", "t" >>]

\* a request handled in full: parseRequestParams, then parseFilter and
\* createQueryParams when there was no error
fullParse(rawQuery, colNames, order, filterOrder, conf, whitelist) ==
    The({ IF rp.err.isErr
          THEN [rp |-> rp, filter |-> NilSlice, query |-> [nil |-> TRUE]]
          ELSE [rp |-> rp,
                filter |-> parseFilter(rp.param.Values, colNameMapOf(colNames),
                                       filterOrder),
                query |-> createQueryParams(rp.param, colNames)] :
          rp \in { parseRequestParams(rawQuery, order, conf, whitelist) } })

(***************************************************************************)
(* Inputs.                                                                 *)
(***************************************************************************)
\* paging configurations: the limits a deployment may configure
ConfChoices ==
    { [LimitDefault |-> 2, LimitMax |-> 4],
      [LimitDefault |-> 10, LimitMax |-> 1000] }

\* values of an integer parameter
IntStrings ==
    { << >>, << "0" >>, << "3" >>, << "4" >>, << "5" >>, << "2", "0" >>,
      << "2", "1" >>, << "-", "1" >>, << "-", "5" >>, << "+", "2" >>,
      << "0", "0", "7" >>, << "x" >>, << "5", "x" >>, << " ", "5" >>,
      << "-" >>, << "1", ".", "5" >>, << "1", "0", "0", "0" >>,
      << "1", "0", "0", "1" >>, MinInt64Digits }

\* the maps holding at most the one key
ValuesOf(key, strings) == { EmptyMap } \cup { key :> v : v \in strings }

\* function names a whitelist is built from
nST_A == << "S", "T", "_", "A" >>
nst_a == << "s", "t", "_", "a" >>
nst_st_a == << "s", "t", "_", "s", "t", "_", "a" >>
nB == << "B" >>

FunNameLists ==
    { << >>, << nST_A >>, << nST_A, nB >>, << nST_A, nst_a >>,
      << nst_st_a >>, << << >>, nST_A >> }

\* function definitions of a transform value
FunDefs ==
    { << "a" >>, << "A", ",", "1" >>, nst_a, << "S", "t", "_", "A", ",", "1", ",", "x" >>,
      << "b" >>, << "z", "z" >>, << >> }

TransformStrings ==
    { Join(defs, transformFunSep) : defs \in SeqsUpTo(FunDefs, MaxFuns) }

\* names of a properties value, and column catalogs
nName == << "N", "a", "m", "e" >>
nname == << "n", "a", "m", "e" >>
nFOO == << "F", "O", "O" >>
nbar == << "b", "a", "r" >>

PropNames == { nName, nname, nFOO, nbar, << >> }

PropertiesStrings == { Join(names, ",") : names \in SeqsUpTo(PropNames, MaxNames) }

Catalogs ==
    { << >>, << nname, nbar >>, << nName, nbar >>, << nbar, nFOO, nname >> }

\* values of an orderBy parameter
OrderByStrings ==
    { << >>, nname, << "N", "a", "m", "e", ":", "D" >>, << "n", ":", "a" >>,
      << "n", ":", "d" >>, << "n", ":", "x" >>, << "n", ":" >>,
      << "n", ":", "d", ":", "x" >>, << "n", ":", "x", ":", "d" >>,
      << ":", "d" >>, << "n", ":", "d", "a" >>, << "n", ":", "a", ":" >> }

\* parameter maps and column maps of parseFilter
FilterKeys == { nname, nbar, ParamLimit, << "z", "z" >> }

FilterParamMaps ==
    { [k \in S |-> << "V" >> \o k] : S \in SUBSET FilterKeys }

FilterColNameMaps ==
    { colNameMapOf(c) : c \in Catalogs \cup { << nname, ParamLimit >> } }

\* name=value pairs of a raw query
Pair(n, v) == [name |-> n, value |-> v]

ArgPairs ==
    { Pair(<< "L", "i", "m", "i", "t" >>, << "1" >>),
      Pair(ParamLimit, << "x" >>),
      Pair(ParamOffset, << "y" >>),
      Pair(ParamBbox, << "1", ",", "-", "2", ",", "3", ".", "5", ",", "4" >>),
      Pair(ParamProperties, << >>),
      Pair(<< "o", "r", "d", "e", "r", "B", "y" >>, << "n", ":", "q" >>),
      Pair(ParamPrecision, << "p" >>),
      Pair(ParamTransform, << "a", ",", "1" >>),
      Pair(nname, << "v" >>) }

RawQueries == SeqsUpTo(ArgPairs, MaxArgs)

(***************************************************************************)
(* The calls of one goroutine: each action is one call of a function of    *)
(* param.go, recorded with its arguments and its result until the caller   *)
(* has taken it.                                                           *)
(***************************************************************************)
NoCall == [op |-> "none"]
NoRun == [nil |-> TRUE]
Idle == [pc |-> "idle"]

\* a goroutine makes its next call once the last result has been taken
Ready == call = NoCall

Init ==
    /\ Configuration \in ConfChoices
    /\ transformFunctionWhitelist = NilMap
    /\ call = NoCall
    /\ rerun = NoRun
    /\ reqs = [s \in 1..NReq |-> Idle]

\* initTransforms, called once at startup
InitTransforms ==
    /\ Ready
    /\ \A s \in DOMAIN reqs : reqs[s] = Idle
    /\ transformFunctionWhitelist.nil
    /\ \E funNames \in FunNameLists :
           transformFunctionWhitelist' = initTransforms(funNames)
    /\ UNCHANGED << Configuration, call, rerun, reqs >>

Called(op, args, ret) ==
    /\ call' = [op |-> op, args |-> args, ret |-> ret]
    /\ UNCHANGED << Configuration, transformFunctionWhitelist, rerun, reqs >>

CallParseLimit ==
    /\ Ready
    /\ \E values \in ValuesOf(ParamLimit, IntStrings) :
           Called("parseLimit", [values |-> values],
                  parseLimit(values, Configuration))

\* the two calls parseRequestParams makes, and two other ranges
IntRanges ==
    { [key |-> ParamOffset, min |-> 0, max |-> Configuration.LimitMax, def |-> 0],
      [key |-> ParamPrecision, min |-> 0, max |-> 20, def |-> -1],
      [key |-> ParamOffset, min |-> -3, max |-> -1, def |-> 7],
      [key |-> ParamPrecision, min |-> 3, max |-> 3, def |-> 0] }

CallParseInt ==
    /\ Ready
    /\ \E a \in IntRanges : \E values \in ValuesOf(a.key, IntStrings) :
           Called("parseInt", [values |-> values] @@ a,
                  parseInt(values, a.key, a.min, a.max, a.def))

\* parseProperties, and createQueryParams on the param that holds its result
CallProjection ==
    /\ Ready
    /\ \E values \in ValuesOf(ParamProperties, PropertiesStrings) :
       \E colNames \in Catalogs :
           LET props == parseProperties(values)
               param == [initialParam(values, Configuration)
                             EXCEPT !.Properties = props.val]
           IN  Called("projection", [values |-> values, colNames |-> colNames],
                      [props |-> props, query |-> createQueryParams(param, colNames)])

CallParseOrderBy ==
    /\ Ready
    /\ \E values \in ValuesOf(ParamOrderBy, OrderByStrings) :
           Called("parseOrderBy", [values |-> values], parseOrderBy(values))

CallParseTransform ==
    /\ Ready
    /\ \E values \in ValuesOf(ParamTransform, TransformStrings) :
           Called("parseTransform", [values |-> values],
                  parseTransform(values, transformFunctionWhitelist))

CallParseFilter ==
    /\ Ready
    /\ \E paramMap \in FilterParamMaps : \E colNameMap \in FilterColNameMaps :
       \E order \in IterationOrders(paramMap) :
           Called("parseFilter", [paramMap |-> paramMap, colNameMap |-> colNameMap],
                  parseFilter(paramMap, colNameMap, order))

\* the column catalog of the collection the requests of the model address
RequestCatalog == << nname, nbar >>

\* the full parse of one request
FullParseResults(rawQuery) ==
    { fullParse(rawQuery, RequestCatalog, order, filterOrder, Configuration,
                transformFunctionWhitelist) :
        order \in IterationOrders(Query(rawQuery)),
        filterOrder \in
            IterationOrders([k \in { ToLower(rawQuery[i].name) :
                                       i \in 1..Len(rawQuery) } |-> << >>]) }

CallFullParse ==
    /\ Ready
    /\ \E rawQuery \in RawQueries : \E ret \in FullParseResults(rawQuery) :
           Called("fullParse", [rawQuery |-> rawQuery], ret)

\* the same raw query parsed a second time
Rerun ==
    /\ call.op = "fullParse"
    /\ rerun = NoRun
    /\ \E ret \in FullParseResults(call.args.rawQuery) : rerun' = ret
    /\ UNCHANGED << Configuration, transformFunctionWhitelist, call, reqs >>

\* the caller takes the result
Return ==
    /\ call # NoCall
    /\ call' = NoCall
    /\ rerun' = NoRun
    /\ UNCHANGED << Configuration, transformFunctionWhitelist, reqs >>

Next ==
    \/ InitTransforms
    \/ CallParseLimit
    \/ CallParseInt
    \/ CallProjection
    \/ CallParseOrderBy
    \/ CallParseTransform
    \/ CallParseFilter
    \/ CallFullParse
    \/ Rerun
    \/ Return

Spec == Init /\ [][Next]_vars

(***************************************************************************)
(* Requests parsed concurrently, each by its own goroutine, once the       *)
(* whitelist has been initialised.  A request takes one step per access to *)
(* the configuration or the whitelist: the start of parseRequestParams,    *)
(* each of its parameter blocks, then parseFilter and createQueryParams.   *)
(***************************************************************************)
ConcQueries ==
    { << Pair(nname, << "v" >>) >>,
      << Pair(ParamTransform, << "a", ",", "1" >>) >>,
      << Pair(ParamOffset, << "y" >>) >>,
      << Pair(<< "L", "i", "m", "i", "t" >>, << "1" >>),
         Pair(ParamLimit, << "9" >>) >> }

SetReq(s, r) ==
    /\ reqs' = [reqs EXCEPT ![s] = r]
    /\ UNCHANGED << Configuration, transformFunctionWhitelist, call, rerun >>

\* parseRequestParams up to its first parameter block
StartRequest(s) ==
    /\ reqs[s] = Idle
    /\ ~transformFunctionWhitelist.nil
    /\ \E rawQuery \in ConcQueries : \E order \in IterationOrders(Query(rawQuery)) :
           SetReq(s, [pc |-> "parse", stage |-> 1, rawQuery |-> rawQuery,
                      order |-> order, filterOrder |-> << >>,
                      rp |-> [param |-> initialParam(
                                            extractSingleArgs(Query(rawQuery), order),
                                            Configuration),
                              err |-> NoErr],
                      filter |-> NilSlice, query |-> [nil |-> TRUE]])

\* ParseStep, entering every resolved alias into the whitelist
ParseStepCaching(s) ==
    /\ reqs[s].pc = "parse"
    /\ LET r == parseStage(Stages[reqs[s].stage], reqs[s].rp.param, Configuration,
                           transformFunctionWhitelist)
           names == TransformNames(Lookup(reqs[s].rp.param.Values, ParamTransform))
           resolved == { i \in 1..Len(names) :
                           actualFunctionName(names[i], transformFunctionWhitelist)
                               # << >> }
       IN  /\ reqs' = [reqs EXCEPT ![s] =
                  [reqs[s] EXCEPT
                       !.rp = r,
                       !.stage = @ + 1,
                       !.pc = IF r.err.isErr THEN "done"
                              ELSE IF reqs[s].stage = Len(Stages) THEN "filter"
                              ELSE "parse"]]
           /\ transformFunctionWhitelist' =
                  IF Stages[reqs[s].stage] = "transform"
                  THEN [transformFunctionWhitelist EXCEPT !.m =
                           [k \in DOMAIN @ \cup { ToLower(names[i]) : i \in resolved } |->
                               IF k \in DOMAIN @ THEN @[k]
                               ELSE actualFunctionName(k, transformFunctionWhitelist)]]
                  ELSE transformFunctionWhitelist
    /\ UNCHANGED << Configuration, call, rerun >>

\* one parameter block of parseRequestParams
ParseStep(s) ==
    /\ reqs[s].pc = "parse"
    /\ LET r == parseStage(Stages[reqs[s].stage], reqs[s].rp.param, Configuration,
                           transformFunctionWhitelist)
       IN  SetReq(s, [reqs[s] EXCEPT
                          !.rp = r,
                          !.stage = @ + 1,
                          !.pc = IF r.err.isErr THEN "done"
                                 ELSE IF reqs[s].stage = Len(Stages) THEN "filter"
                                 ELSE "parse"])

\* parseFilter on the values of the request
FilterStep(s) ==
    /\ reqs[s].pc = "filter"
    /\ \E filterOrder \in IterationOrders(reqs[s].rp.param.Values) :
           SetReq(s, [reqs[s] EXCEPT
                          !.filterOrder = filterOrder,
                          !.filter = parseFilter(reqs[s].rp.param.Values,
                                                 colNameMapOf(RequestCatalog),
                                                 filterOrder),
                          !.pc = "create"])

\* createQueryParams
CreateStep(s) ==
    /\ reqs[s].pc = "create"
    /\ SetReq(s, [reqs[s] EXCEPT
                      !.query = createQueryParams(reqs[s].rp.param, RequestCatalog),
                      !.pc = "done"])

\* the handler is done with the request
Finish(s) ==
    /\ reqs[s].pc = "done"
    /\ SetReq(s, Idle)

Start == \E s \in DOMAIN reqs : StartRequest(s)
Parse == \E s \in DOMAIN reqs : ParseStep(s)
Filter == \E s \in DOMAIN reqs : FilterStep(s)
Create == \E s \in DOMAIN reqs : CreateStep(s)
Finished == \E s \in DOMAIN reqs : Finish(s)

NextConc ==
    \/ InitTransforms
    \/ Start
    \/ Parse
    \/ Filter
    \/ Create
    \/ Finished

SpecConc == Init /\ [][NextConc]_vars

(***************************************************************************)
(* Properties of the single calls.                                         *)
(***************************************************************************)
Min(S) == CHOOSE x \in S : \A y \in S : x <= y

Elems(seq) == { seq[i] : i \in 1..Len(seq) }

\* C2: parseLimit returns the configured default for an absent or empty
\* limit; the configured maximum for a value that parses as an integer below
\* 0 or above the maximum; the value itself when it parses to an integer in
\* [0, max]; and an error only for a value that does not parse.
C2_ParseLimit ==
    call.op = "parseLimit" =>
        LET val == Lookup(call.args.values, ParamLimit)
            n == Atoi(val)
            max == Configuration.LimitMax
        IN  /\ val = << >> => call.ret = Ret(Configuration.LimitDefault, NoErr)
            /\ val # << >> /\ n.ok /\ (n.val < 0 \/ n.val > max)
                   => call.ret = Ret(max, NoErr)
            /\ val # << >> /\ n.ok /\ 0 <= n.val /\ n.val <= max
                   => call.ret = Ret(n.val, NoErr)
            /\ call.ret.err.isErr => val # << >> /\ ~n.ok

\* a negative limit has been parsed to the configured maximum
C2_Witness ==
    /\ call.op = "parseLimit"
    /\ Lookup(call.args.values, ParamLimit) = << "-", "5" >>
    /\ call.ret = Ret(Configuration.LimitMax, NoErr)
    /\ Configuration.LimitMax # Configuration.LimitDefault

\* C3: parseInt with min <= max returns the default, whatever it is, for an
\* absent or empty value; an integer within [min, max] unchanged; min for an
\* integer below min and max for one above max; and an error exactly when
\* the value is not empty and does not parse as an integer.
C3_ParseInt ==
    call.op = "parseInt" =>
        LET a == call.args
            val == Lookup(a.values, a.key)
            n == Atoi(val)
        IN  /\ a.min <= a.max
            /\ val = << >> => call.ret = Ret(a.def, NoErr)
            /\ val # << >> /\ n.ok /\ a.min <= n.val /\ n.val <= a.max
                   => call.ret = Ret(n.val, NoErr)
            /\ val # << >> /\ n.ok /\ n.val < a.min => call.ret = Ret(a.min, NoErr)
            /\ val # << >> /\ n.ok /\ n.val > a.max => call.ret = Ret(a.max, NoErr)
            /\ call.ret.err.isErr <=> val # << >> /\ ~n.ok
            /\ call.ret.err.isErr
                   => call.ret.err = InvalidParameterValue(a.key, val)

\* precision has been parsed from an absent value to its default -1, which
\* lies outside [0, 20]
C3_Witness ==
    /\ call.op = "parseInt"
    /\ call.args.key = ParamPrecision
    /\ call.args.values = EmptyMap
    /\ call.args.min = 0
    /\ call.ret = Ret(-1, NoErr)

\* the name lists initTransforms may have built the whitelist from
BuiltFrom(whitelist) == { f \in FunNameLists : initTransforms(f) = whitelist }

\* the name has a whitelist entry, as written or with st_ prepended
ResolvesLoosely(name, whitelist) ==
    \/ ToLower(name) \in DOMAIN whitelist.m
    \/ functionPrefixST \o ToLower(name) \in DOMAIN whitelist.m

\* the name has a non-empty whitelist entry as written, or has none and,
\* not beginning with st_ itself, has a non-empty one with st_ prepended
ResolvesStrictly(name, whitelist) ==
    LET low == ToLower(name)
        st == functionPrefixST \o low
    IN  IF low \in DOMAIN whitelist.m THEN whitelist.m[low] # << >>
        ELSE /\ ~HasPrefix(low, functionPrefixST)
             /\ st \in DOMAIN whitelist.m
             /\ whitelist.m[st] # << >>

\* the result of a successful parseTransform: one function per definition,
\* in input order, under the whitelist's name and with its arguments as given
TransformSuccessOk(val, ret, whitelist) ==
    LET names == TransformNames(val)
        args == TransformArgs(val)
    IN  /\ ~ret.val.nil
        /\ Len(ret.val.elems) = Len(names)
        /\ \A i \in 1..Len(names) :
              /\ ret.val.elems[i].Arg = args[i]
              /\ ret.val.elems[i].Name \in
                     { whitelist.m[k] :
                         k \in { ToLower(names[i]),
                                 functionPrefixST \o ToLower(names[i]) }
                               \cap DOMAIN whitelist.m }
              /\ \A f \in BuiltFrom(whitelist) : ret.val.elems[i].Name \in Elems(f)

\* the failure of parseTransform on the first name that does not resolve
TransformFailureOk(val, ret, unresolved) ==
    unresolved # {} =>
        ret = Ret(NilSlice,
                  InvalidParameterValue(ParamTransform,
                                        TransformNames(val)[Min(unresolved)]))

\* C1 as claimed: on a non-empty transform value and an initialised
\* whitelist, a successful parseTransform returns the functions in input
\* order under canonical whitelist names with their arguments unchanged, and
\* when some name resolves neither as written nor with st_ prepended the call
\* fails with InvalidParameterValue(transform, first such name).
C1_Original ==
    /\ call.op = "parseTransform"
    /\ ~transformFunctionWhitelist.nil
    /\ Lookup(call.args.values, ParamTransform) # << >>
    => LET val == Lookup(call.args.values, ParamTransform)
           names == TransformNames(val)
       IN  /\ ~call.ret.err.isErr
                  => TransformSuccessOk(val, call.ret, transformFunctionWhitelist)
           /\ TransformFailureOk(val, call.ret,
                  { i \in 1..Len(names) :
                      ~ResolvesLoosely(names[i], transformFunctionWhitelist) })

\* C1 as amended: the same, where a name resolves when it has a non-empty
\* whitelist entry as written, or has no entry as written, does not itself
\* begin with st_ and has a non-empty entry with st_ prepended; the call
\* succeeds exactly when every name resolves.
C1_Transform ==
    /\ call.op = "parseTransform"
    /\ ~transformFunctionWhitelist.nil
    /\ Lookup(call.args.values, ParamTransform) # << >>
    => LET val == Lookup(call.args.values, ParamTransform)
           names == TransformNames(val)
           unresolved ==
               { i \in 1..Len(names) :
                   ~ResolvesStrictly(names[i], transformFunctionWhitelist) }
       IN  /\ ~call.ret.err.isErr
                  => TransformSuccessOk(val, call.ret, transformFunctionWhitelist)
           /\ TransformFailureOk(val, call.ret, unresolved)
           /\ call.ret.err.isErr <=> unresolved # {}

\* "A,1|st_a" has been resolved against the whitelist of ST_A: the first name
\* with the prefix prepended, the second as written
C1_Witness ==
    /\ call.op = "parseTransform"
    /\ transformFunctionWhitelist = initTransforms(<< nST_A >>)
    /\ Lookup(call.args.values, ParamTransform)
           = << "A", ",", "1", "|", "s", "t", "_", "a" >>
    /\ call.ret = Ret(Slice(<< [Name |-> nST_A, Arg |-> << << "1" >> >>],
                               [Name |-> nST_A, Arg |-> << >>] >>), NoErr)

C5_CaseInsensitive ==
    call.op = "projection" /\ call.ret.props.val.elems # << >> =>
        LET requested == call.ret.props.val.elems
            matches(c) == \E i \in 1..Len(requested) :
                              ToLower(requested[i]) = ToLower(c)
        IN  call.ret.query.Columns.elems = SelectSeq(call.args.colNames, matches)

\* C6: parseFilter returns one condition (name, value) for each parameter
\* whose name is not reserved and equals a column name ignoring case, and
\* nothing else.
C6_FilterSet ==
    call.op = "parseFilter" =>
        LET paramMap == call.args.paramMap
            expected ==
                { [Name |-> k, Value |-> paramMap[k]] :
                    k \in { x \in DOMAIN paramMap :
                              /\ ~IsParameterReservedName(x)
                              /\ \E c \in DOMAIN call.args.colNameMap :
                                    ToLower(c) = ToLower(x) } }
        IN  /\ Elems(call.ret.elems) = expected
            /\ Len(call.ret.elems) = Cardinality(expected)

\* the portions of a lowercased orderBy value
OrderByParts(val) == Split(ToLower(val), OrderByDirSep)

IsDirection(token) == token \in { OrderByDirA, OrderByDirD }

\* the result of parseOrderBy on a value whose portions after the name are
\* judged by accepted, the indices of the portions that must be directions
OrderByOk(val, ret, checked) ==
    LET parts == OrderByParts(val)
        bad == { i \in checked : ~IsDirection(parts[i]) }
    IN  /\ val = << >> => ret = Ret(NilSlice, NoErr)
        /\ val # << >> /\ bad = {}
               => ret = Ret(Slice(<< [Name |-> parts[1],
                                      IsDesc |-> Len(parts) >= 2
                                                 /\ parts[2] = OrderByDirD] >>),
                            NoErr)
        /\ val # << >> /\ bad # {}
               => /\ ret.val.elems = << >>
                  /\ ret.err = InvalidParameterValue(ParamOrderBy, parts[Min(bad)])
        /\ Len(ret.val.elems) <= 1

\* C7 as claimed: parseOrderBy succeeds with one Ordering exactly when every
\* portion after the column name is a direction token, and fails with
\* InvalidParameterValue(orderBy, token) otherwise.
C7_Original ==
    call.op = "parseOrderBy" =>
        LET val == Lookup(call.args.values, ParamOrderBy)
        IN  OrderByOk(val, call.ret, 2..Len(OrderByParts(val)))

\* C7 as amended: parseOrderBy succeeds with one Ordering exactly when the
\* second portion, if there is one, is a direction token; the portions after
\* the second are not looked at.
C7_OrderBy ==
    call.op = "parseOrderBy" =>
        LET val == Lookup(call.args.values, ParamOrderBy)
        IN  OrderByOk(val, call.ret, { i \in { 2 } : i <= Len(OrderByParts(val)) })

\* "n:d:x" has been parsed to the descending ordering by n
C7_Witness ==
    /\ call.op = "parseOrderBy"
    /\ Lookup(call.args.values, ParamOrderBy) = << "n", ":", "d", ":", "x" >>
    /\ call.ret = Ret(Slice(<< [Name |-> << "n" >>, IsDesc |-> TRUE] >>), NoErr)

\* C8: parseRequestParams returns the error of the first parser, in the
\* order of the code, that fails on the request's values, and with an error
\* it returns no field parsed from the request: the param is the one it
\* started from.
C8_FailFast ==
    call.op = "fullParse" =>
        LET rp == call.ret.rp
            start == initialParam(rp.param.Values, Configuration)
            stageErr(i) == parseStage(Stages[i], start, Configuration,
                                      transformFunctionWhitelist).err
            failing == { i \in 1..Len(Stages) : stageErr(i).isErr }
        IN  /\ rp.err.isErr <=> failing # {}
            /\ failing # {} => rp.err = stageErr(Min(failing))
            /\ rp.err.isErr => rp.param = start

\* the value of the first pair of the raw query whose name is k ignoring case
FirstValue(rawQuery, k) ==
    rawQuery[Min({ i \in 1..Len(rawQuery) : ToLower(rawQuery[i].name) = k })].value

\* two results of a full parse that differ at most in the order of the filters
SameResult(a, b) ==
    /\ a.rp = b.rp
    /\ a.query = b.query
    /\ Elems(a.filter.elems) = Elems(b.filter.elems)

\* C9: a second full parse of the same raw query gives the same error or
\* the same query parameters, and each parameter name, ignoring case,
\* contributes the value of its first occurrence.
C9_Deterministic ==
    call.op = "fullParse" =>
        /\ rerun # NoRun => SameResult(call.ret, rerun)
        /\ \A k \in DOMAIN call.ret.rp.param.Values :
              call.ret.rp.param.Values[k] = FirstValue(call.args.rawQuery, k)

(***************************************************************************)
(* Properties of the concurrent requests.                                  *)
(***************************************************************************)
\* the request of slot s has returned what its parse returns when run alone
\* on the same query, with the same map iteration orders
DoneAlone(s) ==
    reqs[s].pc = "done" =>
        [rp |-> reqs[s].rp, filter |-> reqs[s].filter, query |-> reqs[s].query]
            = fullParse(reqs[s].rawQuery, RequestCatalog, reqs[s].order,
                        reqs[s].filterOrder, Configuration,
                        transformFunctionWhitelist)

\* C10: once initTransforms has completed, no step of any request changes
\* the whitelist or the configuration, and every finished request holds the
\* result of the same parse run alone.
C10_Isolation ==
    /\ [](\A s \in DOMAIN reqs : DoneAlone(s))
    /\ [][/\ Configuration' = Configuration
          /\ ~transformFunctionWhitelist.nil
                 => transformFunctionWhitelist' = transformFunctionWhitelist]_vars

\* two requests are in flight, one finished with the functions of its
\* transform parameter resolved, the other still parsing
C10_Witness ==
    \E s, t \in DOMAIN reqs :
        /\ s # t
        /\ reqs[s].pc = "done"
        /\ ~reqs[s].rp.err.isErr
        /\ reqs[s].rp.param.TransformFuns.elems # << >>
        /\ reqs[t].pc = "parse"

=============================================================================
